---- MODULE Spec2Model ----
(***************************************************************************)
(* Model of the dnsdb2 client: the query dispatcher (Client._saf_query,    *)
(* Client._json_query, _raise_error) and the SAF stream decoder            *)
(* (dnsdb2.saf.handle_saf), a Python generator that the caller drives with *)
(* next() and may abandon with close().                                    *)
(***************************************************************************)
EXTENDS Integers, Sequences, FiniteSets, TLC

\* Largest number of lines the response's iter_lines() delivers.
MaxLines == 4
\* Largest length of the subject of a search operation (owner name, rdata
\* name, ip, raw rdata, flex value).
MaxLen == 2
\* Largest length of a bailiwick.
MaxBailiwickLen == 1
\* Largest number of calls made on a mock Client.
MaxCalls == 2
\* Largest number of results a mock Client is seeded with.
MaxSeeds == 2

\* ------------------------------------------------------------------------
\* Values

\* Python None: the value of dict.get() for a missing key.
None == "None"
\* The empty JSON object {} and the empty JSON string "": falsy in Python.
EmptyObj == "{}"
EmptyStr == ""
\* Two distinct non-empty result objects.
O1 == "o1"
O2 == "o2"
\* A message text of a limited / failed line.
M1 == "m1"

COND_BEGIN == "begin"
COND_ONGOING == "ongoing"
COND_SUCCEEDED == "succeeded"
COND_LIMITED == "limited"
COND_FAILED == "failed"
\* A cond value outside the five of the protocol.
CondInvalid == "invalid"

\* Python truthiness of the modelled values (if obj: / not cond).
Truthy(v) == v \notin {None, EmptyObj, EmptyStr}

\* ------------------------------------------------------------------------
\* Lines of a response body, as iter_lines(decode_unicode=True) delivers

Blank == [kind |-> "blank", cond |-> None, obj |-> None, msg |-> None]
\* A non-empty line json.loads() rejects.
BadJson == [kind |-> "badjson", cond |-> None, obj |-> None, msg |-> None]
\* A line that is valid JSON but not a JSON object (array, number, ...).
NonObject == [kind |-> "nonobject", cond |-> None, obj |-> None, msg |-> None]
ObjLine(c, o, m) == [kind |-> "object", cond |-> c, obj |-> o, msg |-> m]

\* Lines on which the decoder goes on to the next line.
ContinuingLines ==
    {Blank}
    \cup {ObjLine(COND_BEGIN, o, None) : o \in {None, O1}}
    \cup {ObjLine(None, o, None) : o \in {None, EmptyObj, O1}}
    \cup {ObjLine(COND_ONGOING, o, None) : o \in {O1, O2}}
    \cup {ObjLine(EmptyStr, O1, None)}

\* Lines on which the decoder ends the sequence.
EndingLines ==
    {BadJson, NonObject}
    \cup {ObjLine(COND_SUCCEEDED, o, None) : o \in {None, O1}}
    \cup {ObjLine(COND_LIMITED, o, M1) : o \in {None, EmptyObj, O1}}
    \cup {ObjLine(COND_LIMITED, O2, None)}
    \cup {ObjLine(COND_FAILED, o, M1) : o \in {None, EmptyObj, O1}}
    \cup {ObjLine(COND_FAILED, O2, None)}
    \cup {ObjLine(CondInvalid, o, None) : o \in {None, O1}}

LineAlphabet == ContinuingLines \cup EndingLines

\* ------------------------------------------------------------------------
\* Status mapper (client.py)

UNAUTHORIZED == 401
FORBIDDEN == 403
REQUESTED_RANGE_NOT_SATISFIABLE == 416
TOO_MANY_REQUESTS == 429
SERVICE_UNAVAILABLE == 503

STATUS_CODE_MAP_416AsQuota ==
    (UNAUTHORIZED :> "AccessDenied") @@ (FORBIDDEN :> "AccessDenied")
    @@ (REQUESTED_RANGE_NOT_SATISFIABLE :> "QuotaExceeded")
    @@ (TOO_MANY_REQUESTS :> "QuotaExceeded")
    @@ (SERVICE_UNAVAILABLE :> "ConcurrencyExceeded")

STATUS_CODE_MAP ==
    (UNAUTHORIZED :> "AccessDenied") @@ (FORBIDDEN :> "AccessDenied")
    @@ (REQUESTED_RANGE_NOT_SATISFIABLE :> "OffsetError")
    @@ (TOO_MANY_REQUESTS :> "QuotaExceeded")
    @@ (SERVICE_UNAVAILABLE :> "ConcurrencyExceeded")

\* Statuses the transport answers with.
Statuses == {200, 301, 404, 500}
               \cup {UNAUTHORIZED, FORBIDDEN, REQUESTED_RANGE_NOT_SATISFIABLE,
                     TOO_MANY_REQUESTS, SERVICE_UNAVAILABLE}
\* Body texts of a response.
Texts == {"t1", "t2"}
\* Failures of the transport's GET (subclasses of requests.RequestException).
TransportErrors == {"ConnectionError", "Timeout"}

\* Exceptions that `except requests.RequestException` catches.
RequestExceptions == TransportErrors \cup {"HTTPError", "RequestsJSONDecodeError"}

NoExc == [kind |-> "none", msg |-> None, cause |-> None]
Exc(k, m, c) == [kind |-> k, msg |-> m, cause |-> c]

\* requests.Response.raise_for_status(): HTTPError for 4xx and 5xx.
raise_for_status(r) ==
    IF 400 <= r.status /\ r.status < 600 THEN Exc("HTTPError", None, None) ELSE NoExc

\* _raise_error(res): the exception it raises, NoExc when it returns.
raise_error(r) ==
    IF r.status \in DOMAIN STATUS_CODE_MAP
    THEN Exc(STATUS_CODE_MAP[r.status], r.text, None)
    ELSE raise_for_status(r)

\* An except clause that raises QueryError without `from e`.
except_RequestException_noCause(e) ==
    IF e.kind \in RequestExceptions THEN Exc("QueryError", None, None) ELSE e

\* The except clause of _saf_query / _json_query applied to a raised e.
except_RequestException(e) ==
    IF e.kind \in RequestExceptions THEN Exc("QueryError", None, e.kind) ELSE e

\* What the transport's GET does: it raises err, or answers (status, text).
\* The body text varies for the statuses on which the client may read it
\* (4xx and 5xx); the body of any other response is read as lines.
GetOutcomes ==
    {[err |-> e, status |-> 0, text |-> None] : e \in TransportErrors}
    \cup {[err |-> "none", status |-> s, text |-> x] :
             s \in {c \in Statuses : c >= 400}, x \in Texts}
    \cup {[err |-> "none", status |-> s, text |-> "t1"] :
             s \in {c \in Statuses : c < 400}}

\* What Response.json() does in _json_query: it returns the document, or
\* raises requests' JSONDecodeError (a RequestException) or, with an older
\* requests, a plain ValueError.
JsonOutcomes == {"doc", "RequestsJSONDecodeError", "ValueError"}

Returned == [kind |-> "returned", msg |-> None, cause |-> None]

\* A try block that leaves out the call of _raise_error.
saf_query_try_noRaise(t) ==
    IF t.err # "none" THEN Exc(t.err, None, None) ELSE NoExc

\* The exception raised inside the try block of _saf_query (NoExc: none).
saf_query_try(t) ==
    IF t.err # "none" THEN Exc(t.err, None, None) ELSE raise_error(t)

\* The exception raised inside the try/with block of _json_query.
json_query_try(t, j) ==
    IF t.err # "none" THEN Exc(t.err, None, None)
    ELSE IF raise_error(t) # NoExc THEN raise_error(t)
    ELSE IF j = "doc" THEN NoExc
    ELSE Exc(j, None, None)

\* ------------------------------------------------------------------------
\* SAF decoder (saf.py): what one line does to the generator

Continue == [act |-> "continue", obj |-> None, exc |-> NoExc]
Return == [act |-> "return", obj |-> None, exc |-> Exc("StopIteration", None, None)]
\* A yield of an object that is not the one the line carries.
Yield_invented(o) == [act |-> "yield", obj |-> O1, exc |-> NoExc]
Yield(o) == [act |-> "yield", obj |-> o, exc |-> NoExc]
Raise(k, m) == [act |-> "raise", obj |-> None, exc |-> Exc(k, m, None)]

\* AfterYield without the COND_ONGOING case of line 53.
AfterYield_ongoingInvalid(line, il) ==
    IF ~Truthy(line.cond) THEN Continue
    ELSE IF line.cond = COND_LIMITED
         THEN IF il THEN Return ELSE Raise("QueryLimited", line.msg)
    ELSE IF line.cond = COND_FAILED THEN Raise("QueryFailed", line.msg)
    ELSE Raise("ProtocolError", line.cond)

\* AfterYield in which ignore_limited also ends a failed stream with a return.
AfterYield_ignoreFailed(line, il) ==
    IF line.cond = COND_ONGOING \/ ~Truthy(line.cond) THEN Continue
    ELSE IF line.cond = COND_LIMITED
         THEN IF il THEN Return ELSE Raise("QueryLimited", line.msg)
    ELSE IF line.cond = COND_FAILED
         THEN IF il THEN Return ELSE Raise("QueryFailed", line.msg)
    ELSE Raise("ProtocolError", line.cond)

\* saf.py lines 53-62: the code after the yield, on the cond of the line.
AfterYield(line, il) ==
    IF line.cond = COND_ONGOING \/ ~Truthy(line.cond) THEN Continue
    ELSE IF line.cond = COND_LIMITED
         THEN IF il THEN Return ELSE Raise("QueryLimited", line.msg)
    ELSE IF line.cond = COND_FAILED THEN Raise("QueryFailed", line.msg)
    ELSE Raise("ProtocolError", line.cond)

\* HandleLine that skips a line json.loads rejects instead of raising.
HandleLine_skipBadJson(line, il) ==
    IF line.kind \in {"blank", "badjson"} THEN Continue
    ELSE IF line.kind = "nonobject" THEN Raise("AttributeError", None)
    ELSE IF line.cond = COND_BEGIN THEN Continue
    ELSE IF line.cond = COND_SUCCEEDED THEN Return
    ELSE IF Truthy(line.obj) THEN Yield(line.obj)
    ELSE AfterYield(line, il)

\* HandleLine that tests obj before cond: a succeeded line with a truthy
\* obj is yielded.
HandleLine_succeededYields(line, il) ==
    IF line.kind = "blank" THEN Continue
    ELSE IF line.kind = "badjson"
         THEN [act |-> "raise", obj |-> None,
               exc |-> Exc("ProtocolError", "could not decode json", "JSONDecodeError")]
    ELSE IF line.kind = "nonobject" THEN Raise("AttributeError", None)
    ELSE IF line.cond = COND_BEGIN THEN Continue
    ELSE IF Truthy(line.obj) THEN Yield(line.obj)
    ELSE IF line.cond = COND_SUCCEEDED THEN Return
    ELSE AfterYield(line, il)

\* HandleLine without the begin test of lines 45-46: a begin line goes on
\* to the obj test like any other.
HandleLine_beginYields(line, il) ==
    IF line.kind = "blank" THEN Continue
    ELSE IF line.kind = "badjson"
         THEN [act |-> "raise", obj |-> None,
               exc |-> Exc("ProtocolError", "could not decode json", "JSONDecodeError")]
    ELSE IF line.kind = "nonobject" THEN Raise("AttributeError", None)
    ELSE IF line.cond = COND_SUCCEEDED THEN Return
    ELSE IF Truthy(line.obj) THEN Yield(line.obj)
    ELSE IF line.cond = COND_BEGIN THEN Continue
    ELSE AfterYield(line, il)

\* HandleLine without the blank test of lines 33-34: json.loads rejects
\* the empty line.
HandleLine_blankParsed(line, il) ==
    IF line.kind \in {"blank", "badjson"}
         THEN [act |-> "raise", obj |-> None,
               exc |-> Exc("ProtocolError", "could not decode json", "JSONDecodeError")]
    ELSE IF line.kind = "nonobject" THEN Raise("AttributeError", None)
    ELSE IF line.cond = COND_BEGIN THEN Continue
    ELSE IF line.cond = COND_SUCCEEDED THEN Return
    ELSE IF Truthy(line.obj) THEN Yield(line.obj)
    ELSE AfterYield(line, il)

\* HandleLine in which ignore_limited drops the obj of a limited line.
HandleLine_limitedObjDropped(line, il) ==
    IF line.kind = "blank" THEN Continue
    ELSE IF line.kind = "badjson"
         THEN [act |-> "raise", obj |-> None,
               exc |-> Exc("ProtocolError", "could not decode json", "JSONDecodeError")]
    ELSE IF line.kind = "nonobject" THEN Raise("AttributeError", None)
    ELSE IF line.cond = COND_BEGIN THEN Continue
    ELSE IF line.cond = COND_SUCCEEDED THEN Return
    ELSE IF Truthy(line.obj) /\ ~(il /\ line.cond = COND_LIMITED) THEN Yield(line.obj)
    ELSE AfterYield(line, il)

\* saf.py lines 33-51: from the top of the loop body to the yield; a line
\* without a truthy obj runs on into lines 53-62.
HandleLine(line, il) ==
    IF line.kind = "blank" THEN Continue
    ELSE IF line.kind = "badjson"
         THEN [act |-> "raise", obj |-> None,
               exc |-> Exc("ProtocolError", "could not decode json", "JSONDecodeError")]
    ELSE IF line.kind = "nonobject" THEN Raise("AttributeError", None)
    ELSE IF line.cond = COND_BEGIN THEN Continue
    ELSE IF line.cond = COND_SUCCEEDED THEN Return
    ELSE IF Truthy(line.obj) THEN Yield(line.obj)
    ELSE AfterYield(line, il)

\* saf.py line 64: the loop ran out of lines.
Truncated == Raise("QueryTruncated", None)

\* A finally clause that does not close the response.
Finally_noClose(c) == c

\* saf.py lines 65-66: the finally clause calls res.close().
Finally(c) == c + 1

\* ------------------------------------------------------------------------
\* Text.  A Python str is the sequence of its code points and a bytes value
\* the sequence of its bytes; the type is kept with the value because
\* urllib.parse.quote treats the two differently.

Str(s) == [type |-> "str", val |-> s]
Bytes(b) == [type |-> "bytes", val |-> b]

\* The default None of an optional str argument.
Omitted == <<-1>>
\* A test that takes every str that was given, also '', as present.
TruthyStr_notNone(s) == s # Omitted

\* Python truthiness of an optional str argument (if rrtype: / if bailiwick:).
TruthyStr(s) == s # Omitted /\ s # <<>>

TxtLookup == <<108, 111, 111, 107, 117, 112>>
TxtSummarize == <<115, 117, 109, 109, 97, 114, 105, 122, 101>>
RRTYPE_ANY == <<65, 78, 89>>
\* Literal text of the path templates.
TxtRrsetName == <<47, 114, 114, 115, 101, 116, 47, 110, 97, 109, 101, 47>>
TxtRdataName == <<47, 114, 100, 97, 116, 97, 47, 110, 97, 109, 101, 47>>
TxtRdataIp == <<47, 114, 100, 97, 116, 97, 47, 105, 112, 47>>
TxtRdataRaw == <<47, 114, 100, 97, 116, 97, 47, 114, 97, 119, 47>>
TxtSlash == <<47>>
TxtRegex == <<114, 101, 103, 101, 120>>
TxtGlob == <<103, 108, 111, 98>>
TxtRrnames == <<114, 114, 110, 97, 109, 101, 115>>
TxtRdata == <<114, 100, 97, 116, 97>>

RECURSIVE Concat(_)
\* The concatenation of a sequence of sequences.
Concat(ss) == IF ss = <<>> THEN <<>> ELSE Head(ss) \o Concat(Tail(ss))

IsAscii(s) == \A i \in 1..Len(s) : s[i] < 128

\* str.encode('utf-8') of one code point (up to U+FFFF).
Utf8(cp) ==
    IF cp < 128 THEN <<cp>>
    ELSE IF cp < 2048 THEN <<192 + (cp \div 64), 128 + (cp % 64)>>
    ELSE <<224 + (cp \div 4096), 128 + ((cp \div 64) % 64), 128 + (cp % 64)>>

EncodeUtf8(s) == Concat([i \in 1..Len(s) |-> Utf8(s[i])])

\* An always-safe set that also holds '*'.
ALWAYS_SAFE_star == (65..90) \cup (97..122) \cup (48..57) \cup {95, 46, 45, 126, 42}

\* urllib.parse: the bytes never quoted (A-Z a-z 0-9 _ . - ~).
\* '~' is in the set from Python 3.7 on.
ALWAYS_SAFE == (65..90) \cup (97..122) \cup (48..57) \cup {95, 46, 45, 126}

\* A digit function without the letters A-F.
HexDigit_noLetters(n) == 48 + n

\* One digit of '%02X'.
HexDigit(n) == IF n < 10 THEN 48 + n ELSE 55 + n

QuoteByte(b, safe) ==
    IF b \in ALWAYS_SAFE \cup safe THEN <<b>>
    ELSE <<37, HexDigit(b \div 16), HexDigit(b % 16)>>

\* urllib.parse.quote_from_bytes(bs, safe).
quote_from_bytes(bs, safe) == Concat([i \in 1..Len(bs) |-> QuoteByte(bs[i], safe)])

\* urllib.parse.quote(string, safe): a str is encoded as UTF-8 first.
urllib_quote(x, safe) ==
    quote_from_bytes(IF x.type = "str" THEN EncodeUtf8(x.val) ELSE x.val, safe)

\* A _quote that keeps the default safe='/' of urllib.parse.quote.
Quote_slashSafe(x) == urllib_quote(x, {47})

\* client.py _quote(path): urllib.parse.quote(path, safe='').
Quote(x) == urllib_quote(x, {})

\* ------------------------------------------------------------------------
\* str.encode('idna') (encodings.idna, encodings.punycode)

RECURSIVE SplitFrom(_, _, _)
SplitFrom(s, sep, cur) ==
    IF s = <<>> THEN <<cur>>
    ELSE IF Head(s) = sep THEN <<cur>> \o SplitFrom(Tail(s), sep, <<>>)
    ELSE SplitFrom(Tail(s), sep, Append(cur, Head(s)))

\* s.split(sep) for a one character separator.
Split(s, sep) == SplitFrom(s, sep, <<>>)

RECURSIVE SortedSeq(_)
\* sorted(S) for a set of numbers.
SortedSeq(S) ==
    IF S = {} THEN <<>>
    ELSE LET m == CHOOSE x \in S : \A y \in S : x <= y
         IN <<m>> \o SortedSeq(S \ {m})

IsBasic(c) == c < 128

\* punycode.segregate: the basic code points in order, the others sorted.
SegregateBase(text) == SelectSeq(text, IsBasic)
SegregateExtended(text) == SortedSeq({text[i] : i \in {j \in 1..Len(text) : text[j] >= 128}})

\* punycode.selective_len: the number of code points below max.
selective_len(text, max) == Cardinality({i \in 1..Len(text) : text[i] < max})

RECURSIVE selective_find(_, _, _, _)
\* punycode.selective_find; pos counts from 0 as in the source.
selective_find(text, char, index, pos) ==
    IF pos + 1 = Len(text) THEN [index |-> -1, pos |-> -1]
    ELSE LET c == text[pos + 2] IN
         IF c = char THEN [index |-> index + 1, pos |-> pos + 1]
         ELSE IF c < char THEN selective_find(text, char, index + 1, pos + 1)
         ELSE selective_find(text, char, index, pos + 1)

RECURSIVE UnsortInner(_, _, _, _, _, _, _)
\* The while loop of punycode.insertion_unsort for one extended char.
UnsortInner(text, char, index, pos, delta, oldindex, result) ==
    LET f == selective_find(text, char, index, pos) IN
    IF f.index = -1 THEN [result |-> result, oldindex |-> oldindex]
    ELSE UnsortInner(text, char, f.index, f.pos, 0, f.index,
                     Append(result, delta + (f.index - oldindex) - 1))

RECURSIVE UnsortOuter(_, _, _, _, _, _)
\* The for loop of punycode.insertion_unsort.
UnsortOuter(text, extended, k, oldchar, oldindex, result) ==
    IF k > Len(extended) THEN result
    ELSE LET char == extended[k]
             delta == (selective_len(text, char) + 1) * (char - oldchar)
             r == UnsortInner(text, char, -1, -1, delta, oldindex, result)
         IN UnsortOuter(text, extended, k + 1, char, r.oldindex, r.result)

insertion_unsort(text, extended) == UnsortOuter(text, extended, 1, 128, -1, <<>>)

\* punycode.T
PunyT(j, bias) ==
    LET r == 36 * (j + 1) - bias IN IF r < 1 THEN 1 ELSE IF r > 26 THEN 26 ELSE r

\* punycode.digits: a-z then 0-9.
PunyDigit(d) == IF d < 26 THEN 97 + d ELSE 22 + d

RECURSIVE GenInt(_, _, _)
\* punycode.generate_generalized_integer
GenInt(N, bias, j) ==
    LET t == PunyT(j, bias) IN
    IF N < t THEN <<PunyDigit(N)>>
    ELSE <<PunyDigit(t + ((N - t) % (36 - t)))>> \o GenInt((N - t) \div (36 - t), bias, j + 1)

generate_generalized_integer(N, bias) == GenInt(N, bias, 0)

RECURSIVE AdaptLoop(_, _)
AdaptLoop(delta, divisions) ==
    IF delta > 455 THEN AdaptLoop(delta \div 35, divisions + 36)
    ELSE divisions + ((36 * delta) \div (delta + 38))

\* punycode.adapt
adapt(delta, first, numchars) ==
    LET d1 == IF first THEN delta \div 700 ELSE delta \div 2
        d2 == d1 + (d1 \div numchars)
    IN AdaptLoop(d2, 0)

RECURSIVE GenIntegers(_, _, _, _)
\* punycode.generate_integers
GenIntegers(baselen, deltas, points, bias) ==
    IF points >= Len(deltas) THEN <<>>
    ELSE LET delta == deltas[points + 1] IN
         generate_generalized_integer(delta, bias)
         \o GenIntegers(baselen, deltas, points + 1,
                        adapt(delta, points = 0, baselen + points + 1))

generate_integers(baselen, deltas) == GenIntegers(baselen, deltas, 0, 72)

\* punycode.punycode_encode
punycode_encode(text) ==
    LET base == SegregateBase(text)
        extended == generate_integers(Len(base),
                        insertion_unsort(text, SegregateExtended(text)))
    IN IF base # <<>> THEN base \o <<45>> \o extended ELSE extended

\* stringprep.map_table_b2 on Basic Latin and Latin-1: case folding.
map_table_b2(c) ==
    IF 65 <= c /\ c <= 90 THEN c + 32
    ELSE IF 192 <= c /\ c <= 222 /\ c # 215 THEN c + 32
    ELSE c

\* encodings.idna.nameprep on Basic Latin and Latin-1 letters: nothing is
\* removed, normalised or prohibited there, letters are case folded.
nameprep(label) == [i \in 1..Len(label) |-> map_table_b2(label[i])]

IdnaOk(b) == [ok |-> TRUE, val |-> b]
\* UnicodeError
IdnaError == [ok |-> FALSE, val |-> <<>>]

ace_prefix == <<120, 110, 45, 45>>

StartsWith(s, p) == Len(s) >= Len(p) /\ SubSeq(s, 1, Len(p)) = p

\* Step 8 of ToASCII: the size check.
CheckSize(label) ==
    IF 0 < Len(label) /\ Len(label) < 64 THEN IdnaOk(label) ELSE IdnaError

\* encodings.idna.ToASCII
ToASCII(label) ==
    IF IsAscii(label) THEN CheckSize(label)
    ELSE LET p == nameprep(label) IN
         IF IsAscii(p) THEN CheckSize(p)
         ELSE IF StartsWith(p, ace_prefix) THEN IdnaError
         ELSE CheckSize(ace_prefix \o punycode_encode(p))

RECURSIVE JoinLabels(_)
\* The labels joined with '.'; UnicodeError if a label has none.
JoinLabels(labels) ==
    IF labels = <<>> THEN IdnaOk(<<>>)
    ELSE LET h == ToASCII(Head(labels))
             t == JoinLabels(Tail(labels))
         IN IF ~h.ok \/ ~t.ok THEN IdnaError
            ELSE IdnaOk(IF Len(labels) = 1 THEN h.val ELSE h.val \o <<46>> \o t.val)

\* encodings.idna.Codec.encode: input.encode('idna').
idna_encode(input) ==
    IF input = <<>> THEN IdnaOk(<<>>)
    ELSE LET labels == Split(input, 46) IN
         IF IsAscii(input)
         THEN IF (\A i \in 1..(Len(labels) - 1) :
                     0 < Len(labels[i]) /\ Len(labels[i]) < 64)
                 /\ Len(labels[Len(labels)]) < 64
              THEN IdnaOk(input)
              ELSE IdnaError
         ELSE IF labels[Len(labels)] = <<>>
              THEN LET r == JoinLabels(SubSeq(labels, 1, Len(labels) - 1)) IN
                   IF r.ok THEN IdnaOk(r.val \o <<46>>) ELSE IdnaError
              ELSE JoinLabels(labels)

\* ------------------------------------------------------------------------
\* Query parameters (client.py 364-368, 379-380, 397-398)

\* A dict is a function from its keys; {} has no key.
EmptyDict == <<>>

\* A dict.update that keeps the value of a key the dict already has.
update_keepOld(d, other) ==
    [k \in DOMAIN d \cup DOMAIN other |-> IF k \in DOMAIN d THEN d[k] ELSE other[k]]

\* d.update(other): the dict d has afterwards.
update(d, other) ==
    [k \in DOMAIN d \cup DOMAIN other |-> IF k \in DOMAIN other THEN other[k] ELSE d[k]]

\* self.swclient and self.version of the Client.
swclient == "sw0"
version == "v0"

\* Client._base_params
base_params == [swclient |-> swclient, version |-> version]

\* Keys and values of the keyword arguments a caller adds to a search call.
ParamKeys == {"limit", "swclient", "version"}
ParamVals == {"1", "x"}
CallerParams == UNION {[D -> ParamVals] : D \in SUBSET ParamKeys}
\* The keyword arguments of a search call: parameters, and ignore_limited
\* given as True, given as False or not given.
Kwargs ==
    CallerParams
    \cup {update(ps, [ignore_limited |-> il]) : ps \in CallerParams, il \in {"True", "False"}}

\* The ignore_limited the signature of f binds (default False).
BindIgnoreLimited(kw) ==
    IF "ignore_limited" \in DOMAIN kw THEN kw["ignore_limited"] = "True" ELSE FALSE

\* The **params the signature of f binds: what is left of the keywords.
BindParams(kw) == [k \in DOMAIN kw \ {"ignore_limited"} |-> kw[k]]

\* ------------------------------------------------------------------------
\* State

VARIABLES
    op,              \* the query issued: "none", "saf" or "json"
    res,             \* what the transport's GET did
    getCalls,        \* number of calls of session.get
    callResult,      \* Returned, or the exception the query call raised
    ignore_limited,  \* the argument handle_saf was called with
    gen,             \* generator: "none", "created", "running", "suspended", "done"
    lines,           \* the lines taken from iter_lines so far
    parsed,          \* number of json.loads calls
    eof,             \* iter_lines has reported the end of the response
    yielded,         \* the objects delivered to the caller, in order
    yieldedAt,       \* for each delivered object, the number of the line it came from
    outcome,         \* how the generator ended (NoExc while it has not)
    closed,          \* number of close() calls on the response
    last,            \* result of the latest next(): "none", "pending", "elem", "stop", "raise"
    query,           \* the search operation called and its arguments
    path,            \* the path the operation passed to _saf_query
    pathErr,         \* the exception raised while composing the path, or "none"
    request,         \* keyword arguments of the call and the parameters sent
    mockState,       \* mock.Client: "none" before its construction, then "ready"
    exception,       \* mock.Client.exception
    search_results,  \* mock.Client.search_results
    calls,           \* mock.Client.calls
    seeded,          \* the search_results the mock Client was constructed with
    results          \* each call made on the mock Client: what was called and what it did

vars == <<op, res, getCalls, callResult, ignore_limited, gen, lines, parsed, eof,
          yielded, yieldedAt, outcome, closed, last, query, path, pathErr, request,
          mockState, exception, search_results, calls, seeded, results>>

safVars == <<op, res, getCalls, callResult, ignore_limited, gen, lines, parsed, eof,
             yielded, yieldedAt, outcome, closed, last, request>>

pathVars == <<query, path, pathErr>>

mockVars == <<mockState, exception, search_results, calls, seeded, results>>

clientVars == <<op, res, getCalls, callResult, ignore_limited, request>>

NoRes == [err |-> "none", status |-> 0, text |-> None]

\* No request has been made.
NoRequest == [kwargs |-> EmptyDict, params |-> EmptyDict, query_params |-> EmptyDict]

\* No search operation has been called.
NoQuery == [op |-> "none", subject |-> <<>>, rrtype |-> Omitted, bailiwick |-> Omitted]

Init ==
    /\ op = "none"
    /\ res = NoRes
    /\ getCalls = 0
    /\ callResult = NoExc
    /\ ignore_limited = FALSE
    /\ gen = "none"
    /\ lines = <<>>
    /\ parsed = 0
    /\ eof = FALSE
    /\ yielded = <<>>
    /\ yieldedAt = <<>>
    /\ outcome = NoExc
    /\ closed = 0
    /\ last = "none"
    /\ query = NoQuery
    /\ path = <<>>
    /\ pathErr = "none"
    /\ request = NoRequest
    /\ mockState = "none"
    /\ exception = None
    /\ search_results = <<>>
    /\ calls = <<>>
    /\ seeded = <<>>
    /\ results = <<>>

\* ------------------------------------------------------------------------
\* Dispatcher

\* A search operation called with the keywords kw: f binds ignore_limited
\* and **params and calls Client._saf_query (client.py 394-414), which adds
\* params to the base parameters, makes the GET whose outcome is t, maps the
\* status and hands the response to handle_saf.
SafQueryCall(kw, t) ==
    LET e == saf_query_try(t)
        params == BindParams(kw)
    IN /\ op' = "saf"
       /\ request' = [kwargs |-> kw, params |-> params,
                      query_params |-> update(base_params, params)]
       /\ res' = t
       /\ getCalls' = getCalls + 1
       /\ ignore_limited' = BindIgnoreLimited(kw)
       /\ callResult' = IF e = NoExc THEN Returned ELSE except_RequestException(e)
       /\ gen' = IF e = NoExc THEN "created" ELSE "none"
       /\ UNCHANGED <<pathVars, mockVars, lines, parsed, eof, yielded, yieldedAt, outcome, closed, last>>

\* A search operation called with or without ignore_limited=True and no
\* other keyword.
SafQuery ==
    /\ op = "none"
    /\ \E il \in BOOLEAN, t \in GetOutcomes :
         SafQueryCall(IF il THEN [ignore_limited |-> "True"] ELSE EmptyDict, t)

\* A search operation called with any keywords.
SafQueryWithParams ==
    /\ op = "none"
    /\ \E kw \in Kwargs, t \in GetOutcomes : SafQueryCall(kw, t)

\* Client._json_query (client.py 376-392), called by ping and rate_limit
\* without parameters.
JsonQuery ==
    /\ op = "none"
    /\ \E t \in GetOutcomes, j \in JsonOutcomes :
         LET e == json_query_try(t, j) IN
         /\ op' = "json"
         /\ request' = [kwargs |-> EmptyDict, params |-> EmptyDict,
                        query_params |-> update(base_params, EmptyDict)]
         /\ res' = t
         /\ getCalls' = getCalls + 1
         /\ callResult' = IF e = NoExc THEN Returned ELSE except_RequestException(e)
         \* the with statement closes the response it was given
         /\ closed' = IF t.err = "none" THEN closed + 1 ELSE closed
    /\ UNCHANGED <<pathVars, mockVars, ignore_limited, gen, lines, parsed, eof, yielded, yieldedAt, outcome, last>>

\* ------------------------------------------------------------------------
\* Decoder: the generator handle_saf returns, driven by the caller

\* The generator ends with r (a return or a raise): the finally clause runs.
Terminate(r) ==
    /\ gen' = "done"
    /\ outcome' = r.exc
    /\ closed' = Finally(closed)
    /\ last' = IF r.act = "return" THEN "stop" ELSE "raise"

\* The first next(): the body starts and reaches the for loop.
Start ==
    /\ gen = "created"
    /\ gen' = "running"
    /\ last' = "pending"
    /\ UNCHANGED <<pathVars, mockVars, clientVars, lines, parsed, eof, yielded, yieldedAt, outcome, closed>>

\* next() on a generator suspended at the yield: lines 53-62 run for the
\* line whose obj was yielded.
Resume ==
    /\ gen = "suspended"
    /\ LET r == AfterYield(lines[Len(lines)], ignore_limited) IN
         IF r.act = "continue"
         THEN /\ gen' = "running"
              /\ last' = "pending"
              /\ UNCHANGED <<outcome, closed>>
         ELSE Terminate(r)
    /\ UNCHANGED <<pathVars, mockVars, clientVars, lines, parsed, eof, yielded, yieldedAt>>

\* A decoder that reads ahead while it is suspended at the yield.
ReadLine_eager ==
    /\ gen \in {"running", "suspended"}
    /\ Len(lines) < MaxLines
    /\ \E l \in LineAlphabet :
         LET r == HandleLine(l, ignore_limited) IN
         /\ lines' = Append(lines, l)
         /\ parsed' = IF l.kind = "blank" THEN parsed ELSE parsed + 1
         /\ IF r.act = "continue"
            THEN UNCHANGED <<gen, yielded, yieldedAt, outcome, closed, last>>
            ELSE IF r.act = "yield"
            THEN /\ yielded' = Append(yielded, r.obj)
                 /\ yieldedAt' = Append(yieldedAt, Len(lines) + 1)
                 /\ gen' = "suspended"
                 /\ last' = "elem"
                 /\ UNCHANGED <<outcome, closed>>
            ELSE /\ Terminate(r)
                 /\ UNCHANGED <<yielded, yieldedAt>>
    /\ UNCHANGED <<pathVars, mockVars, clientVars, eof>>

\* One iteration of the for loop: the next line of the response.
ReadLine ==
    /\ gen = "running"
    /\ Len(lines) < MaxLines
    /\ \E l \in LineAlphabet :
         LET r == HandleLine(l, ignore_limited) IN
         /\ lines' = Append(lines, l)
         /\ parsed' = IF l.kind = "blank" THEN parsed ELSE parsed + 1
         /\ IF r.act = "continue"
            THEN UNCHANGED <<gen, yielded, yieldedAt, outcome, closed, last>>
            ELSE IF r.act = "yield"
            THEN /\ yielded' = Append(yielded, r.obj)
                 /\ yieldedAt' = Append(yieldedAt, Len(lines) + 1)
                 /\ gen' = "suspended"
                 /\ last' = "elem"
                 /\ UNCHANGED <<outcome, closed>>
            ELSE /\ Terminate(r)
                 /\ UNCHANGED <<yielded, yieldedAt>>
    /\ UNCHANGED <<pathVars, mockVars, clientVars, eof>>

\* iter_lines is exhausted: the for loop ends and line 64 raises.
EndOfInput ==
    /\ gen = "running"
    /\ eof' = TRUE
    /\ Terminate(Truncated)
    /\ UNCHANGED <<pathVars, mockVars, clientVars, lines, parsed, yielded, yieldedAt>>

\* An ended generator that starts over on the next next().
NextAfterDone_restarts ==
    /\ gen = "done"
    /\ gen' = "running"
    /\ last' = "pending"
    /\ UNCHANGED <<pathVars, mockVars, clientVars, lines, parsed, eof, yielded, yieldedAt, outcome, closed>>

\* next() on a generator that has ended: StopIteration, nothing runs.
NextAfterDone ==
    /\ gen = "done"
    /\ last' = "stop"
    /\ UNCHANGED <<pathVars, mockVars, clientVars, gen, lines, parsed, eof, yielded, yieldedAt, outcome, closed>>

\* An abandonment that does not run the finally clause.
GenClose_noFinally ==
    /\ gen \in {"created", "suspended"}
    /\ gen' = "done"
    /\ outcome' = IF gen = "suspended" THEN Exc("GeneratorExit", None, None)
                  ELSE Exc("NeverStarted", None, None)
    /\ UNCHANGED <<pathVars, mockVars, clientVars, lines, parsed, eof, yielded, yieldedAt, closed, last>>

\* The caller abandons the generator: close() (called by the caller or when
\* the generator is collected).  A generator suspended at the yield gets
\* GeneratorExit there and its finally clause runs; a generator that was
\* never started ends without running any of its body.
GenClose ==
    /\ gen \in {"created", "suspended"}
    /\ gen' = "done"
    /\ IF gen = "suspended"
       THEN /\ outcome' = Exc("GeneratorExit", None, None)
            /\ closed' = Finally(closed)
       ELSE /\ outcome' = Exc("NeverStarted", None, None)
            /\ UNCHANGED closed
    /\ UNCHANGED <<pathVars, mockVars, clientVars, lines, parsed, eof, yielded, yieldedAt, last>>

Next ==
    \/ SafQuery
    \/ JsonQuery
    \/ Start
    \/ Resume
    \/ ReadLine
    \/ EndOfInput
    \/ NextAfterDone
    \/ GenClose

Spec == Init /\ [][Next]_vars

\* ------------------------------------------------------------------------
\* Search operations: the path each one composes (client.py 159-278, 336-347)

\* Characters of the arguments: a B . / , space * - ~ and e-acute (U+00E9).
Chars == {97, 66, 46, 47, 44, 32, 42, 45, 126, 233}

\* Characters of a bailiwick: . * and e-acute.
BailiwickChars == {46, 42, 233}

StrsUpTo(A, n) == UNION {[1..k -> A] : k \in 0..n}

Subjects == StrsUpTo(Chars, MaxLen)
\* rrtype: not given, '', 'A' and 'A/B'.
RRTypes == {Omitted, <<>>, <<65>>, <<65, 47, 66>>}
Bailiwicks == {Omitted} \cup StrsUpTo(BailiwickChars, MaxBailiwickLen)

Composed(p) == [err |-> "none", path |-> p]
\* str.encode('idna') raised: the operation ends before it has a path.
ComposeError == [err |-> "UnicodeError", path |-> <<>>]

\* An rrset generator that inserts ANY whenever no rrtype was given.
gen_rrset_anyAlways(prefix, owner_name, rrtype, bailiwick) ==
    LET o == idna_encode(owner_name) IN
    IF ~o.ok THEN ComposeError
    ELSE LET p1 == prefix \o TxtRrsetName \o Quote(Bytes(o.val))
             p2 == IF TruthyStr(rrtype) THEN p1 \o TxtSlash \o rrtype
                   ELSE p1 \o TxtSlash \o RRTYPE_ANY
         IN IF TruthyStr(bailiwick)
            THEN LET b == idna_encode(bailiwick) IN
                 IF ~b.ok THEN ComposeError
                 ELSE Composed(p2 \o TxtSlash \o Quote(Bytes(b.val)))
            ELSE Composed(p2)

\* _gen_rrset(prefix): the body of f up to the call of _saf_query.
gen_rrset(prefix, owner_name, rrtype, bailiwick) ==
    LET o == idna_encode(owner_name) IN
    IF ~o.ok THEN ComposeError
    ELSE LET p1 == prefix \o TxtRrsetName \o Quote(Bytes(o.val))
             p2 == IF TruthyStr(rrtype) THEN p1 \o TxtSlash \o rrtype ELSE p1
         IN IF TruthyStr(bailiwick)
            THEN LET b == idna_encode(bailiwick) IN
                 IF ~b.ok THEN ComposeError
                 ELSE LET p3 == IF ~TruthyStr(rrtype)
                                THEN p2 \o TxtSlash \o RRTYPE_ANY ELSE p2
                      IN Composed(p3 \o TxtSlash \o Quote(Bytes(b.val)))
            ELSE Composed(p2)

\* An rdata name generator that quotes the name without IDNA encoding it.
gen_rdata_name_noIdna(prefix, name, rrtype) ==
    LET p1 == prefix \o TxtRdataName \o Quote(Str(name))
    IN Composed(IF TruthyStr(rrtype) THEN p1 \o TxtSlash \o rrtype ELSE p1)

\* _gen_rdata_name(prefix)
gen_rdata_name(prefix, name, rrtype) ==
    LET n == idna_encode(name) IN
    IF ~n.ok THEN ComposeError
    ELSE LET p1 == prefix \o TxtRdataName \o Quote(Bytes(n.val))
         IN Composed(IF TruthyStr(rrtype) THEN p1 \o TxtSlash \o rrtype ELSE p1)

\* ip.replace('/', ',')
ReplaceSlash(ip) == [i \in 1..Len(ip) |-> IF ip[i] = 47 THEN 44 ELSE ip[i]]

\* An rdata ip generator that percent-encodes the address.
gen_rdata_ip_quoted(prefix, ip) ==
    Composed(prefix \o TxtRdataIp \o Quote(Str(ip)))

\* _gen_rdata_ip(prefix)
gen_rdata_ip(prefix, ip) ==
    Composed(prefix \o TxtRdataIp \o ReplaceSlash(ip))

\* _gen_rdata_raw(prefix)
gen_rdata_raw(prefix, raw_rdata, rrtype) ==
    LET p1 == prefix \o TxtRdataRaw \o raw_rdata
    IN Composed(IF TruthyStr(rrtype) THEN p1 \o TxtSlash \o rrtype ELSE p1)

\* A flex generator that puts the key before the method.
gen_flex_keyFirst(method, key, value, rrtype) ==
    LET p1 == key \o TxtSlash \o method \o TxtSlash \o Quote(Str(value))
    IN Composed(IF TruthyStr(rrtype) THEN p1 \o TxtSlash \o rrtype ELSE p1)

\* _gen_flex(method, key)
gen_flex(method, key, value, rrtype) ==
    LET p1 == method \o TxtSlash \o key \o TxtSlash \o Quote(Str(value))
    IN Composed(IF TruthyStr(rrtype) THEN p1 \o TxtSlash \o rrtype ELSE p1)

\* The public search operations of Client (client.py 336-347) and the
\* arguments their generators were built with.
RrsetOps ==
    [lookup_rrset |-> TxtLookup, summarize_rrset |-> TxtSummarize]
RdataNameOps ==
    [lookup_rdata_name |-> TxtLookup, summarize_rdata_name |-> TxtSummarize]
RdataIpOps ==
    [lookup_rdata_ip |-> TxtLookup, summarize_rdata_ip |-> TxtSummarize]
RdataRawOps ==
    [lookup_rdata_raw |-> TxtLookup, summarize_rdata_raw |-> TxtSummarize]
FlexOps ==
    [flex_rrnames_regex |-> [method |-> TxtRegex, key |-> TxtRrnames],
     flex_rrnames_glob |-> [method |-> TxtGlob, key |-> TxtRrnames],
     flex_rdata_regex |-> [method |-> TxtRegex, key |-> TxtRdata],
     flex_rdata_glob |-> [method |-> TxtGlob, key |-> TxtRdata]]

\* The operation ends with r: either the path is handed to _saf_query or
\* the exception of the composition reaches the caller.
Compose(name, subject, rrtype, bailiwick, r) ==
    /\ query' = [op |-> name, subject |-> subject, rrtype |-> rrtype,
                 bailiwick |-> bailiwick]
    /\ path' = r.path
    /\ pathErr' = r.err
    /\ UNCHANGED <<safVars, mockVars>>

\* lookup_rrset, summarize_rrset
Rrset ==
    /\ query = NoQuery
    /\ \E name \in DOMAIN RrsetOps, owner_name \in Subjects,
          rrtype \in RRTypes, bailiwick \in Bailiwicks :
         Compose(name, owner_name, rrtype, bailiwick,
                 gen_rrset(RrsetOps[name], owner_name, rrtype, bailiwick))

\* lookup_rdata_name, summarize_rdata_name
RdataName ==
    /\ query = NoQuery
    /\ \E name \in DOMAIN RdataNameOps, n \in Subjects, rrtype \in RRTypes :
         Compose(name, n, rrtype, Omitted,
                 gen_rdata_name(RdataNameOps[name], n, rrtype))

\* lookup_rdata_ip, summarize_rdata_ip
RdataIp ==
    /\ query = NoQuery
    /\ \E name \in DOMAIN RdataIpOps, ip \in Subjects :
         Compose(name, ip, Omitted, Omitted, gen_rdata_ip(RdataIpOps[name], ip))

\* lookup_rdata_raw, summarize_rdata_raw
RdataRaw ==
    /\ query = NoQuery
    /\ \E name \in DOMAIN RdataRawOps, raw_rdata \in Subjects, rrtype \in RRTypes :
         Compose(name, raw_rdata, rrtype, Omitted,
                 gen_rdata_raw(RdataRawOps[name], raw_rdata, rrtype))

\* flex_rrnames_regex, flex_rrnames_glob, flex_rdata_regex, flex_rdata_glob
Flex ==
    /\ query = NoQuery
    /\ \E name \in DOMAIN FlexOps, value \in Subjects, rrtype \in RRTypes :
         Compose(name, value, rrtype, Omitted,
                 gen_flex(FlexOps[name].method, FlexOps[name].key, value, rrtype))

PathNext ==
    \/ Rrset
    \/ RdataName
    \/ RdataIp
    \/ RdataRaw
    \/ Flex

\* The search operations against a _saf_query that records its path.
SpecPath == Init /\ [][PathNext]_vars

ParamsNext ==
    \/ SafQueryWithParams
    \/ JsonQuery

\* The requests the client makes, without the decoding of their responses.
SpecParams == Init /\ [][ParamsNext]_vars

\* ------------------------------------------------------------------------
\* The mock Client (mock.py)

\* The exception a mock Client can be constructed with.
ForcedException == "E0"
\* The elements of search_results: two results and an exception instance.
R1 == "r1"
R2 == "r2"
X1 == "x1"
SeedValues == {R1, R2, X1}
\* isinstance(res, Exception)
IsException(v) == v \in {X1, ForcedException, "IndexError"}

SeedSeqs == UNION {[1..k -> SeedValues] : k \in 0..MaxSeeds}

\* ping_result and rate_limit_result of the mock Client.
ping_result == "pong"
rate_limit_result == "rate"

\* What a call does: it returns val or raises val, and leaves rest in
\* search_results.
MockReturn(v, rest) == [kind |-> "return", val |-> v, rest |-> rest]
MockRaise(v, rest) == [kind |-> "raise", val |-> v, rest |-> rest]

\* A _searches that leaves search_results as it is.
searches_keep(sr) ==
    IF sr = <<>> THEN MockRaise("IndexError", sr)
    ELSE IF IsException(Head(sr)) THEN MockRaise(Head(sr), sr)
    ELSE MockReturn(Head(sr), sr)

\* _searches.g (mock.py 69-79): the first element of search_results, taken
\* from it; an empty search_results raises IndexError at line 72.
searches(sr) ==
    IF sr = <<>> THEN MockRaise("IndexError", sr)
    ELSE IF IsException(Head(sr)) THEN MockRaise(Head(sr), Tail(sr))
    ELSE MockReturn(Head(sr), Tail(sr))

\* A _raises that runs the function before it looks at the exception.
raises_after(ex, inner, sr) ==
    IF Truthy(ex) THEN MockRaise(ex, inner.rest) ELSE inner

\* _raises.g (mock.py 36-44): the forced exception, or what f does.
raises(ex, inner, sr) ==
    IF Truthy(ex) THEN MockRaise(ex, sr) ELSE inner

\* A record of the call that never gets the exception.
Recorded_noException(call, r) ==
    IF r.kind = "return" THEN update(call, [res |-> r.val]) ELSE call

\* _records.g (mock.py 47-66): the entry of the call in calls once it ended.
Recorded(call, r) ==
    IF r.kind = "return" THEN update(call, [res |-> r.val])
    ELSE update(call, [e |-> r.val])

\* mock.Client.__init__ (mock.py 89-98)
MockInit ==
    /\ mockState = "none"
    /\ \E ex \in {None, ForcedException}, sr \in SeedSeqs :
         /\ exception' = ex
         /\ search_results' = sr
         /\ seeded' = sr
    /\ mockState' = "ready"
    /\ calls' = <<>>
    /\ UNCHANGED <<safVars, pathVars, results>>

\* A call of the decorated method name with the positional arguments args
\* (self left out) and the keyword arguments kw; inner is what the
\* innermost function does.
MockCall(name, args, kw, inner) ==
    LET r == raises(exception, inner, search_results) IN
    /\ mockState = "ready"
    /\ Len(calls) < MaxCalls
    /\ calls' = Append(calls, Recorded([f |-> name, args |-> args, kwargs |-> kw], r))
    /\ search_results' = r.rest
    /\ results' = Append(results, [name |-> name, args |-> args, kwargs |-> kw,
                                   kind |-> r.kind, val |-> r.val])
    /\ UNCHANGED <<safVars, pathVars, mockState, exception, seeded>>

\* mock.Client.ping (mock.py 100-103)
MockPing == MockCall("ping", <<>>, EmptyDict, MockReturn(ping_result, search_results))

\* mock.Client.rate_limit (mock.py 105-108)
MockRateLimit ==
    MockCall("rate_limit", <<>>, EmptyDict, MockReturn(rate_limit_result, search_results))

\* The twelve search operations of the mock Client (mock.py 110-180).
SearchNames == DOMAIN RrsetOps \cup DOMAIN RdataNameOps \cup DOMAIN RdataIpOps
               \cup DOMAIN RdataRawOps \cup DOMAIN FlexOps

\* The arguments of a search call on the mock Client: a subject, and for
\* lookup_rrset also a subject, an rrtype and a keyword.
MockArgs(name) ==
    {[args |-> <<"a">>, kwargs |-> EmptyDict]}
    \cup (IF name = "lookup_rrset"
          THEN {[args |-> <<"b", "A">>, kwargs |-> [limit |-> "1"]]}
          ELSE {})

MockSearch ==
    \E name \in SearchNames :
        \E a \in MockArgs(name) :
            MockCall(name, a.args, a.kwargs, searches(search_results))

MockNext ==
    \/ MockInit
    \/ MockPing
    \/ MockRateLimit
    \/ MockSearch

\* A mock Client and the calls made on it.
SpecMock == Init /\ [][MockNext]_vars

\* ------------------------------------------------------------------------
\* Properties of the decoder

LastLine == lines[Len(lines)]
LastYielded == yielded[Len(yielded)]
Front(s) == SubSeq(s, 1, Len(s) - 1)

\* The generator was abandoned by the caller, not consumed to its end.
Abandoned == outcome.kind \in {"GeneratorExit", "NeverStarted"}
Success == Exc("StopIteration", None, None)

\* A payload line: cond absent or ongoing, and a non-empty obj.
IsPayloadLine(l) ==
    /\ l.kind = "object"
    /\ l.cond \in {None, COND_ONGOING}
    /\ l.obj \notin {None, EmptyObj}

\* begin, then payload lines: what a simple stream looks like before its
\* succeeded line.
IsSimplePrefix(s) ==
    /\ Len(s) >= 1
    /\ s[1].kind = "object" /\ s[1].cond = COND_BEGIN
    /\ \A i \in 2..Len(s) : IsPayloadLine(s[i])

\* begin, payload lines, succeeded.
IsSimpleStream(s) ==
    /\ Len(s) >= 2
    /\ IsSimplePrefix(Front(s))
    /\ s[Len(s)].kind = "object" /\ s[Len(s)].cond = COND_SUCCEEDED

\* C1: for a stream of one begin line, payload lines (cond absent or
\* ongoing, non-empty obj) and one succeeded line, the decoder delivers
\* exactly the payload objects, once each and in line order, and then ends
\* without raising.  While only the begin line and payload lines have been
\* read, exactly their objects have been delivered and the decoder has not
\* ended, unless the input ended there or the caller abandoned it.
C1_SimpleStreamDecoded ==
    /\ IsSimplePrefix(lines) =>
        /\ Len(yielded) = Len(lines) - 1
        /\ \A i \in 1..Len(yielded) : yielded[i] = lines[i + 1].obj /\ yieldedAt[i] = i + 1
        /\ gen = "done" => (eof \/ Abandoned)
    /\ IsSimpleStream(lines) =>
        /\ gen = "done"
        /\ outcome = Success
        /\ last = "stop"
        /\ Len(yielded) = Len(lines) - 2
        /\ \A i \in 1..Len(yielded) : yielded[i] = lines[i + 1].obj /\ yieldedAt[i] = i + 1

C1_Witness ==
    /\ IsSimpleStream(lines)
    /\ gen = "done"
    /\ Len(yielded) = 2
    /\ yielded[1] # yielded[2]

\* C2: a limited line that carries an obj first delivers that obj; the next
\* request raises QueryLimited with the line's msg when ignore_limited is
\* false and ends the sequence successfully when it is true.
C2_LimitedObjDelivered ==
    (Len(lines) > 0 /\ LastLine.kind = "object" /\ LastLine.cond = COND_LIMITED
       /\ LastLine.obj # None) =>
        /\ gen \in {"suspended", "done"}
        /\ Len(yielded) > 0
        /\ LastYielded = LastLine.obj
        /\ yieldedAt[Len(yieldedAt)] = Len(lines)
        /\ (gen = "done" /\ ~Abandoned) =>
             outcome = IF ignore_limited THEN Success
                       ELSE Exc("QueryLimited", LastLine.msg, None)

\* C3: a failed line delivers its obj if it has one and then raises
\* QueryFailed with the line's msg, whatever ignore_limited is; what was
\* delivered before stays delivered.
C3_FailedObjDelivered ==
    (Len(lines) > 0 /\ LastLine.kind = "object" /\ LastLine.cond = COND_FAILED) =>
        /\ gen \in {"suspended", "done"}
        /\ LastLine.obj # None =>
             /\ Len(yielded) > 0
             /\ LastYielded = LastLine.obj
             /\ yieldedAt[Len(yieldedAt)] = Len(lines)
        /\ (gen = "done" /\ ~Abandoned) =>
             outcome = Exc("QueryFailed", LastLine.msg, None)

\* The lines, other than begin lines, that carry an obj.
ObjCarriers(s) ==
    {i \in 1..Len(s) : s[i].kind = "object" /\ s[i].cond # COND_BEGIN /\ s[i].obj # None}

\* C4: when the input ends without a succeeded, limited or failed line, the
\* decoder has delivered the payload of every line read and raises
\* QueryTruncated; it never ends such a stream successfully.
C4_TruncatedAfterAllPayloads ==
    eof =>
        /\ gen = "done"
        /\ outcome = Exc("QueryTruncated", None, None)
        /\ \A i \in ObjCarriers(lines) :
             \E k \in 1..Len(yielded) : yieldedAt[k] = i /\ yielded[k] = lines[i].obj

\* C5: a non-empty line that is not JSON raises ProtocolError at that line
\* and closes the response; nothing is delivered from that line or a later
\* one, and what was delivered before stays delivered.
C5_BadJsonIsProtocolError ==
    [][ /\ (lines' # lines /\ lines'[Len(lines')].kind = "badjson") =>
             /\ gen' = "done"
             /\ outcome'.kind = "ProtocolError"
             /\ last' = "raise"
             /\ yielded' = yielded
             /\ closed = 0 /\ closed' = 1
        /\ (Len(lines) > 0 /\ LastLine.kind = "badjson") =>
             /\ lines' = lines
             /\ yielded' = yielded
             /\ outcome' = outcome
             /\ closed' = closed
             /\ gen' = "done"
      ]_vars

C5_Witness ==
    /\ Len(lines) > 1
    /\ LastLine.kind = "badjson"
    /\ Len(yielded) > 0
    /\ outcome.kind = "ProtocolError"
    /\ closed = 1

\* C6: a line whose cond is present and is none of begin, ongoing,
\* succeeded, limited, failed raises ProtocolError naming that cond, after
\* its obj (if it has one) was delivered; it is never treated as ongoing.
C6_UnknownCondIsProtocolError ==
    (Len(lines) > 0 /\ LastLine.kind = "object"
       /\ LastLine.cond \notin {None, COND_BEGIN, COND_ONGOING, COND_SUCCEEDED,
                                 COND_LIMITED, COND_FAILED}) =>
        /\ gen \in {"suspended", "done"}
        /\ LastLine.obj # None =>
             /\ Len(yielded) > 0
             /\ LastYielded = LastLine.obj
             /\ yieldedAt[Len(yieldedAt)] = Len(lines)
        /\ (gen = "done" /\ ~Abandoned) =>
             outcome = Exc("ProtocolError", LastLine.cond, None)

\* The ways a sequence that is consumed to its end terminates.
ConsumedEnds ==
    {"StopIteration", "QueryLimited", "QueryFailed", "QueryTruncated", "ProtocolError"}

\* C7: when a sequence consumed to its end has terminated, close() was
\* called on the response exactly once.
C7_ClosedExactlyOnce ==
    (op = "saf" /\ gen = "done" /\ outcome.kind \in ConsumedEnds) => closed = 1

C7_Witness ==
    /\ gen = "done"
    /\ outcome.kind = "QueryFailed"
    /\ Len(yielded) = 2
    /\ last = "stop"
    /\ closed = 1

\* C8: abandoning a sequence after at least one element and before its end
\* closes the response exactly once, in the abandoning step, and no line is
\* parsed afterwards.
C8_AbandonClosesOnce ==
    /\ [](outcome.kind = "GeneratorExit" =>
            /\ closed = 1
            /\ Len(yielded) > 0
            /\ yieldedAt[Len(yieldedAt)] = Len(lines))
    /\ [][ /\ (gen = "suspended" /\ gen' = "done" /\ last' = "elem") =>
                /\ Len(yielded) > 0
                /\ closed = 0 /\ closed' = 1
                /\ lines' = lines /\ parsed' = parsed
           /\ outcome.kind = "GeneratorExit" =>
                /\ lines' = lines /\ parsed' = parsed
                /\ yielded' = yielded
                /\ closed' = closed
         ]_vars

C8_Witness ==
    /\ outcome.kind = "GeneratorExit"
    /\ Len(yielded) = 2
    /\ closed = 1
    /\ last = "stop"

\* C9: the decoder is lazy.  No line is read or parsed before the first
\* request; lines are read one at a time and only while a request is
\* pending; when an element has been delivered, or the caller has stopped,
\* the last line read is the one that carried the latest element.
C9_Lazy ==
    /\ []( /\ gen \in {"none", "created"} => (lines = <<>> /\ parsed = 0)
           /\ parsed <= Len(lines)
           /\ gen = "suspended" =>
                (Len(yieldedAt) > 0 /\ yieldedAt[Len(yieldedAt)] = Len(lines))
           /\ outcome.kind = "NeverStarted" => lines = <<>>
           /\ outcome.kind = "GeneratorExit" =>
                yieldedAt[Len(yieldedAt)] = Len(lines) )
    /\ [][ (lines' # lines \/ parsed' # parsed) =>
              /\ gen = "running"
              /\ last = "pending"
              /\ Len(lines') = Len(lines) + 1
              /\ Front(lines') = lines
         ]_vars

C9_Witness ==
    /\ outcome.kind = "GeneratorExit"
    /\ Len(yielded) = 1
    /\ Len(lines) = 2
    /\ parsed = 1

\* ------------------------------------------------------------------------
\* Properties of the dispatcher

\* The error kind documented for a mapped status.
MappedKind(s) ==
    CASE s = 401 -> "AccessDenied"
      [] s = 403 -> "AccessDenied"
      [] s = 416 -> "OffsetError"
      [] s = 429 -> "QuotaExceeded"
      [] s = 503 -> "ConcurrencyExceeded"

\* C10: for status 401, 403, 416, 429 and 503 both query methods raise the
\* mapped kind, not QueryError, and handle_saf is not called.
C10_MappedStatusRaisesMappedKind ==
    (op \in {"saf", "json"} /\ res.err = "none" /\ res.status \in {401, 403, 416, 429, 503}) =>
        /\ callResult.kind = MappedKind(res.status)
        /\ callResult.kind # "QueryError"
        /\ gen = "none"
        /\ lines = <<>>

C10_Witness ==
    /\ op = "saf"
    /\ res.status = 416
    /\ callResult.kind = "OffsetError"
    /\ gen = "none"

\* C11: for every status outside 200..299 that is not 401, 403, 416, 429 or
\* 503 (1xx and 3xx included) both query methods raise QueryError and the
\* decoder is not called.
C11_OtherStatusRaisesQueryError ==
    (op \in {"saf", "json"} /\ res.err = "none"
       /\ ~(200 <= res.status /\ res.status <= 299)
       /\ res.status \notin {401, 403, 416, 429, 503}) =>
        /\ callResult.kind = "QueryError"
        /\ gen = "none"

\* The kinds of error raised because of a response status.
StatusErrorKinds ==
    {"AccessDenied", "OffsetError", "QuotaExceeded", "ConcurrencyExceeded", "QueryError"}

\* C12: every error raised because of a response status, mapped kind or
\* QueryError, carries the response body text as its message.
C12_StatusErrorCarriesBody ==
    (op \in {"saf", "json"} /\ res.err = "none" /\ res.status >= 400
       /\ callResult.kind \in StatusErrorKinds) =>
        callResult.msg = res.text

\* C13: when the transport's GET fails, both query methods raise QueryError
\* whose cause is the transport error, no decoder sequence is returned and
\* the GET was called exactly once.
C13_TransportFailureIsQueryError ==
    (op \in {"saf", "json"} /\ res.err # "none") =>
        /\ callResult.kind = "QueryError"
        /\ callResult.cause = res.err
        /\ res.err \in TransportErrors
        /\ gen = "none"
        /\ getCalls = 1
        /\ closed = 0

C13_Witness ==
    /\ op = "saf"
    /\ res.err = "Timeout"
    /\ callResult = Exc("QueryError", None, "Timeout")
    /\ getCalls = 1

\* ------------------------------------------------------------------------
\* Properties of the composed paths

Range(s) == {s[i] : i \in 1..Len(s)}
EndsWith(s, x) == Len(s) >= Len(x) /\ SubSeq(s, Len(s) - Len(x) + 1, Len(s)) = x

\* The path split at its '/' characters.
Segs == Split(path, 47)

\* The unreserved characters: ASCII letters, digits, '-', '_', '.', '~'.
Unreserved == (65..90) \cup (97..122) \cup (48..57) \cup {45, 95, 46, 126}

IsHex(c) == c \in (48..57) \cup (65..70) \cup (97..102)
HexVal(c) == IF c <= 57 THEN c - 48 ELSE IF c <= 70 THEN c - 55 ELSE c - 87

RECURSIVE UnquoteToBytes(_)
\* Percent-decoding of an ASCII segment: each %XX is the byte XX.
UnquoteToBytes(s) ==
    IF s = <<>> THEN <<>>
    ELSE IF Head(s) = 37 /\ Len(s) >= 3 /\ IsHex(s[2]) /\ IsHex(s[3])
    THEN <<16 * HexVal(s[2]) + HexVal(s[3])>> \o UnquoteToBytes(SubSeq(s, 4, Len(s)))
    ELSE <<Head(s)>> \o UnquoteToBytes(Tail(s))

RECURSIVE DecodeUtf8(_)
\* The code points of a UTF-8 byte string (one to three byte forms).
DecodeUtf8(b) ==
    IF b = <<>> THEN <<>>
    ELSE IF b[1] >= 224 /\ Len(b) >= 3
    THEN <<(b[1] - 224) * 4096 + (b[2] - 128) * 64 + (b[3] - 128)>>
         \o DecodeUtf8(SubSeq(b, 4, Len(b)))
    ELSE IF b[1] >= 192 /\ Len(b) >= 2
    THEN <<(b[1] - 192) * 64 + (b[2] - 128)>> \o DecodeUtf8(SubSeq(b, 3, Len(b)))
    ELSE <<b[1]>> \o DecodeUtf8(Tail(b))

\* Percent-decoding of a segment to text.
Unquote(s) == DecodeUtf8(UnquoteToBytes(s))

\* seg is a percent-encoding, with no safe characters, of the bytes b.
EncodesBytes(seg, b) ==
    /\ Range(seg) \subseteq Unreserved \cup {37}
    /\ UnquoteToBytes(seg) = b

IsRrset == query.op \in {"lookup_rrset", "summarize_rrset"}
IsRdataName == query.op \in {"lookup_rdata_name", "summarize_rdata_name"}
IsRdataIp == query.op \in {"lookup_rdata_ip", "summarize_rdata_ip"}
IsRdataRaw == query.op \in {"lookup_rdata_raw", "summarize_rdata_raw"}
IsFlex == query.op \in {"flex_rrnames_regex", "flex_rrnames_glob",
                        "flex_rdata_regex", "flex_rdata_glob"}
HasPath == query.op # "none" /\ pathErr = "none"

\* The prefix the operation's name announces.
PrefixOf(name) ==
    IF name \in {"lookup_rrset", "lookup_rdata_name", "lookup_rdata_ip", "lookup_rdata_raw"}
    THEN <<108, 111, 111, 107, 117, 112>> ELSE <<115, 117, 109, 109, 97, 114, 105, 122, 101>>

\* C14: the rrset path is <prefix>/rrset/name/<enc(owner_name)>, then
\* /<rrtype> iff rrtype is non-empty, then, iff bailiwick is non-empty, /ANY
\* exactly when rrtype is empty followed by /<enc(bailiwick)>; enc is IDNA
\* encoding followed by percent-encoding.  ANY never appears when an rrtype
\* or no bailiwick was given, and the bailiwick is the third segment after
\* 'name'.
C14_RrsetPath ==
    (IsRrset /\ HasPath) =>
        LET hasType == query.rrtype \notin {Omitted, <<>>}
            hasBw == query.bailiwick \notin {Omitted, <<>>}
            segs == Segs
        IN /\ Len(segs) = 4 + (IF hasType \/ hasBw THEN 1 ELSE 0) + (IF hasBw THEN 1 ELSE 0)
           /\ segs[1] = PrefixOf(query.op)
           /\ segs[2] = <<114, 114, 115, 101, 116>>
           /\ segs[3] = <<110, 97, 109, 101>>
           /\ EncodesBytes(segs[4], idna_encode(query.subject).val)
           /\ hasType => segs[5] = query.rrtype
           /\ (hasBw /\ ~hasType) => segs[5] = <<65, 78, 89>>
           /\ hasBw => EncodesBytes(segs[6], idna_encode(query.bailiwick).val)

\* lookup_rrset('a/', bailiwick='e-acute') asks for
\* lookup/rrset/name/a%2F/ANY/xn--9ca.
C14_Witness ==
    /\ query = [op |-> "lookup_rrset", subject |-> <<97, 47>>, rrtype |-> Omitted,
                bailiwick |-> <<233>>]
    /\ path = <<108, 111, 111, 107, 117, 112, 47, 114, 114, 115, 101, 116, 47, 110, 97, 109, 101, 47, 97, 37, 50, 70, 47, 65, 78, 89, 47, 120, 110, 45, 45, 57, 99, 97>>

\* C15: the rdata-ip path is <prefix>/rdata/ip/<s>, s being the ip argument
\* with every '/' replaced by ',' and nothing else changed: no
\* percent-encoding, no IDNA encoding, and no '/' in s.
C15_RdataIpPath ==
    IsRdataIp =>
        LET head == PrefixOf(query.op) \o <<47, 114, 100, 97, 116, 97, 47, 105, 112, 47>>
            seg == SubSeq(path, Len(head) + 1, Len(path))
        IN /\ pathErr = "none"
           /\ StartsWith(path, head)
           /\ Len(seg) = Len(query.subject)
           /\ \A i \in 1..Len(seg) :
                seg[i] = IF query.subject[i] = 47 THEN 44 ELSE query.subject[i]
           /\ 47 \notin Range(seg)

\* summarize_rdata_ip('a/') asks for summarize/rdata/ip/a,.
C15_Witness ==
    /\ query.op = "summarize_rdata_ip"
    /\ query.subject = <<97, 47>>
    /\ path = <<115, 117, 109, 109, 97, 114, 105, 122, 101, 47, 114, 100, 97, 116, 97, 47, 105, 112, 47, 97, 44>>

\* The (method, key) pair of each public flex operation.
FlexPair(name) ==
    IF name = "flex_rrnames_regex" THEN <<<<114, 101, 103, 101, 120>>, <<114, 114, 110, 97, 109, 101, 115>>>>
    ELSE IF name = "flex_rrnames_glob" THEN <<<<103, 108, 111, 98>>, <<114, 114, 110, 97, 109, 101, 115>>>>
    ELSE IF name = "flex_rdata_regex" THEN <<<<114, 101, 103, 101, 120>>, <<114, 100, 97, 116, 97>>>>
    ELSE <<<<103, 108, 111, 98>>, <<114, 100, 97, 116, 97>>>>

\* C16: a flex path is <method>/<key>/<enc(value)>, then /<rrtype> iff
\* rrtype is non-empty; enc is percent-encoding with no safe characters of
\* the value itself (no IDNA encoding); the four operations use the pairs
\* (regex, rrnames), (glob, rrnames), (regex, rdata), (glob, rdata).
C16_FlexPath ==
    IsFlex =>
        LET hasType == query.rrtype \notin {Omitted, <<>>}
            head == FlexPair(query.op)[1] \o <<47>> \o FlexPair(query.op)[2] \o <<47>>
            tail == IF hasType THEN <<47>> \o query.rrtype ELSE <<>>
            value == SubSeq(path, Len(head) + 1, Len(path) - Len(tail))
        IN /\ pathErr = "none"
           /\ path = head \o value \o tail
           /\ EncodesBytes(value, EncodeUtf8(query.subject))

\* flex_rdata_glob(',*', rrtype='A') asks for glob/rdata/%2C%2A/A.
C16_Witness ==
    /\ query.op = "flex_rdata_glob"
    /\ query.subject = <<44, 42>>
    /\ query.rrtype = <<65>>
    /\ path = <<103, 108, 111, 98, 47, 114, 100, 97, 116, 97, 47, 37, 50, 67, 37, 50, 65, 47, 65>>

\* The number of UTF-8 bytes of the characters of v outside the unreserved set.
ReservedBytes(v) ==
    Len(EncodeUtf8(SelectSeq(v, LAMBDA c : c \notin Unreserved)))

\* C17: _quote escapes every character outside the unreserved set (ASCII
\* letters, digits, '-', '_', '.', '~') as %XX and leaves every unreserved
\* character unchanged; ',' becomes %2C, '/' becomes %2F, a space becomes
\* %20, and the encoded segment holds no '/', ',' or space.
C17_QuoteEscapesReserved ==
    IsFlex =>
        LET seg == Segs[3]
            v == query.subject
        IN /\ Range(seg) \subseteq Unreserved \cup {37}
           /\ UnquoteToBytes(seg) = EncodeUtf8(v)
           /\ Len(SelectSeq(seg, LAMBDA c : c = 37)) = ReservedBytes(v)
           /\ Range(seg) \cap {47, 44, 32} = {}
           /\ Range(v) \subseteq Unreserved => seg = v
           /\ v = <<44>> => seg = <<37, 50, 67>>
           /\ v = <<47>> => seg = <<37, 50, 70>>
           /\ v = <<32>> => seg = <<37, 50, 48>>

\* flex_rrnames_regex('~/') asks for regex/rrnames/~%2F.
C17_Witness ==
    /\ query.op = "flex_rrnames_regex"
    /\ query.subject = <<126, 47>>
    /\ query.rrtype = Omitted
    /\ path = <<114, 101, 103, 101, 120, 47, 114, 114, 110, 97, 109, 101, 115, 47, 126, 37, 50, 70>>

\* The encoded subject segment of a path whose subject is percent-encoded.
SubjectSeg == IF IsFlex THEN Segs[3] ELSE Segs[4]
\* What follows the last '/' of s.
RECURSIVE LastSegOf(_)
LastSegOf(s) ==
    IF s = <<>> \/ s[Len(s)] = 47 THEN <<>>
    ELSE Append(LastSegOf(SubSeq(s, 1, Len(s) - 1)), s[Len(s)])

\* The encoded bailiwick segment of an rrset path with a bailiwick: the last.
BailiwickSeg == LastSegOf(path)
HasBailiwick == IsRrset /\ query.bailiwick \notin {Omitted, <<>>}
\* What precedes '/<bailiwick segment>' in such a path.
BeforeBailiwick == SubSeq(path, 1, Len(path) - Len(BailiwickSeg) - 1)
\* The part of the path that ends where the rrtype ends.
UpToRrtype == IF HasBailiwick THEN BeforeBailiwick ELSE path

PathAfter(family) ==
    SubSeq(path, Len(PrefixOf(query.op) \o family) + 1, Len(path))

\* C19: IDNA encoding is applied, before percent-encoding, to the rrset
\* owner name, the rrset bailiwick and the rdata name, and to nothing else:
\* the flex value is percent-encoded as it is, the rdata-ip address and the
\* rdata-raw string and every rrtype reach the path as they are.  A name
\* whose IDNA form has only unreserved characters gives that form as segment.
C19_IdnaOnNamesOnly ==
    LET hasType == query.rrtype \notin {Omitted, <<>>}
        segs == Segs
        o == idna_encode(query.subject)
        b == idna_encode(query.bailiwick)
    IN /\ (IsRrset \/ IsRdataName) =>
            /\ (pathErr = "UnicodeError") = (~o.ok \/ (HasBailiwick /\ ~b.ok))
            /\ pathErr = "none" =>
                 /\ EncodesBytes(segs[4], o.val)
                 /\ Range(o.val) \subseteq Unreserved => segs[4] = o.val
                 /\ hasType => EndsWith(UpToRrtype, <<47>> \o query.rrtype)
                 /\ HasBailiwick =>
                      /\ EncodesBytes(BailiwickSeg, b.val)
                      /\ Range(b.val) \subseteq Unreserved => BailiwickSeg = b.val
       /\ IsFlex =>
            /\ pathErr = "none"
            /\ UnquoteToBytes(segs[3]) = EncodeUtf8(query.subject)
            /\ hasType => EndsWith(path, <<47>> \o query.rrtype)
       /\ IsRdataIp =>
            /\ pathErr = "none"
            /\ Len(PathAfter(<<47, 114, 100, 97, 116, 97, 47, 105, 112, 47>>)) = Len(query.subject)
            /\ \A i \in 1..Len(query.subject) :
                 query.subject[i] # 47 => PathAfter(<<47, 114, 100, 97, 116, 97, 47, 105, 112, 47>>)[i] = query.subject[i]
       /\ IsRdataRaw =>
            /\ pathErr = "none"
            /\ PathAfter(<<47, 114, 100, 97, 116, 97, 47, 114, 97, 119, 47>>) =
                 query.subject \o (IF hasType THEN <<47>> \o query.rrtype ELSE <<>>)

\* lookup_rdata_name('e-acute', rrtype='A') asks for
\* lookup/rdata/name/xn--9ca/A.
C19_Witness ==
    /\ query.op = "lookup_rdata_name"
    /\ query.subject = <<233>>
    /\ query.rrtype = <<65>>
    /\ path = <<108, 111, 111, 107, 117, 112, 47, 114, 100, 97, 116, 97, 47, 110, 97, 109, 101, 47, 120, 110, 45, 45, 57, 99, 97, 47, 65>>

\* A leading '*.' or a trailing '.*'.
IsWildcard(n) == StartsWith(n, <<42, 46>>) \/ EndsWith(n, <<46, 42>>)

WildcardEscaped(n, seg) ==
    /\ 42 \notin Range(seg)
    /\ StartsWith(n, <<42, 46>>) => StartsWith(seg, <<37, 50, 65, 46>>)
    /\ EndsWith(n, <<46, 42>>) => EndsWith(seg, <<46, 37, 50, 65>>)
    /\ 42 \in Range(Unquote(seg))

Slashes(s) == Len(SelectSeq(s, LAMBDA c : c = 47))
HasRrtype == query.rrtype \notin {Omitted, <<>>}

\* C21: in the rrset, rdata-name, rdata-raw and flex operations, lookup and
\* summarize alike, a non-empty rrtype or bailiwick is in the path at its
\* position and an empty or omitted one adds nothing to the path: no
\* segment, no '//' and no trailing '/'.
C21_EmptyOptionalsOmitted ==
    (HasPath /\ (IsRrset \/ IsRdataName \/ IsRdataRaw \/ IsFlex)) =>
        LET segs == Segs
            fixed == (IF IsFlex THEN 2 ELSE 3)
                     + (IF IsRdataRaw THEN Slashes(query.subject) ELSE 0)
            extra == (IF HasRrtype \/ HasBailiwick THEN 1 ELSE 0)
                     + (IF HasBailiwick THEN 1 ELSE 0)
                     + (IF HasRrtype THEN Slashes(query.rrtype) ELSE 0)
        IN /\ Slashes(path) = fixed + extra
           /\ HasRrtype => EndsWith(UpToRrtype, <<47>> \o query.rrtype)
           /\ HasBailiwick =>
                /\ BailiwickSeg # <<>>
                /\ UnquoteToBytes(BailiwickSeg) = idna_encode(query.bailiwick).val
           /\ (query.subject # <<>> /\ 47 \notin Range(query.subject)) =>
                /\ path[Len(path)] # 47
                /\ \A i \in 1..(Len(path) - 1) : ~(path[i] = 47 /\ path[i + 1] = 47)

\* summarize_rdata_raw('a', rrtype='') asks for summarize/rdata/raw/a.
C21_Witness ==
    /\ query.op = "summarize_rdata_raw"
    /\ query.subject = <<97>>
    /\ query.rrtype = <<>>
    /\ path = <<115, 117, 109, 109, 97, 114, 105, 122, 101, 47, 114, 100, 97, 116, 97, 47, 114, 97, 119, 47, 97>>

\* ------------------------------------------------------------------------
\* Properties of the parameters

\* The keywords of the call that are not arguments of the operation itself.
CallerGiven == DOMAIN request.kwargs \ {"ignore_limited"}

\* C22: the parameters of every request have the keys swclient and version;
\* what the caller gave is merged on top and wins, also for swclient and
\* version; the search operation hands the caller's parameters unchanged to
\* _saf_query; ignore_limited goes to the decoder and is never a parameter
\* of the request.
C22_ParamsMerged ==
    op \in {"saf", "json"} =>
        LET qp == request.query_params IN
        /\ DOMAIN qp = {"swclient", "version"} \cup CallerGiven
        /\ \A k \in CallerGiven : qp[k] = request.kwargs[k]
        /\ "swclient" \notin CallerGiven => qp["swclient"] = "sw0"
        /\ "version" \notin CallerGiven => qp["version"] = "v0"
        /\ DOMAIN request.params = CallerGiven
        /\ \A k \in CallerGiven : request.params[k] = request.kwargs[k]
        /\ "ignore_limited" \notin DOMAIN qp
        /\ op = "saf" =>
             ignore_limited = ("ignore_limited" \in DOMAIN request.kwargs
                               /\ request.kwargs["ignore_limited"] = "True")

\* A search called with swclient='x', limit='1', ignore_limited=True sends
\* swclient=x, version=v0, limit=1.
C22_Witness ==
    /\ op = "saf"
    /\ DOMAIN request.kwargs = {"swclient", "limit", "ignore_limited"}
    /\ request.kwargs["swclient"] = "x"
    /\ request.kwargs["ignore_limited"] = "True"
    /\ request.query_params = [swclient |-> "x", version |-> "v0", limit |-> "1"]
    /\ ignore_limited = TRUE

\* ------------------------------------------------------------------------
\* Properties of the mock Client

\* The calls of search operations among the first n calls.
SearchCalls(n) == {i \in 1..n : results[i].name \notin {"ping", "rate_limit"}}

\* C23: after n calls on the mock Client, calls has n entries in the order of
\* the calls; entry i has the name of the operation under f, the positional
\* arguments under args, the keyword arguments under kwargs, res (the value
\* returned) iff the call returned and e (the exception) iff it raised; and
\* a call never removes or changes an earlier entry.
C23_EveryCallRecorded ==
    /\ [](/\ Len(calls) = Len(results)
          /\ \A i \in 1..Len(calls) :
               /\ calls[i]["f"] = results[i].name
               /\ calls[i]["args"] = results[i].args
               /\ calls[i]["kwargs"] = results[i].kwargs
               /\ ("res" \in DOMAIN calls[i]) = (results[i].kind = "return")
               /\ ("e" \in DOMAIN calls[i]) = (results[i].kind = "raise")
               /\ results[i].kind = "return" => calls[i]["res"] = results[i].val
               /\ results[i].kind = "raise" => calls[i]["e"] = results[i].val)
    /\ [][/\ Len(calls') >= Len(calls)
          /\ SubSeq(calls', 1, Len(calls)) = calls]_vars

\* lookup_rrset('b', 'A', limit='1') returned r1, then summarize_rdata_ip('a')
\* raised the seeded x1.
C23_Witness ==
    /\ Len(calls) = 2
    /\ calls[1] = [f |-> "lookup_rrset", args |-> <<"b", "A">>,
                   kwargs |-> [limit |-> "1"], res |-> "r1"]
    /\ calls[2] = [f |-> "summarize_rdata_ip", args |-> <<"a">>,
                   kwargs |-> EmptyDict, e |-> "x1"]

\* C24: on a mock Client constructed with an exception every call, of ping,
\* rate_limit and the search operations, raises that exception, is recorded
\* with it under e, and takes nothing from search_results.
C24_ForcedExceptionAlways ==
    (mockState = "ready" /\ exception # "None") =>
        /\ search_results = seeded
        /\ \A i \in 1..Len(calls) :
             /\ results[i].kind = "raise"
             /\ results[i].val = exception
             /\ "e" \in DOMAIN calls[i]
             /\ calls[i]["e"] = exception
             /\ "res" \notin DOMAIN calls[i]

\* ping and flex_rdata_glob both raised E0 and r1 is still to be delivered.
C24_Witness ==
    /\ exception = "E0"
    /\ seeded = <<"r1">> /\ search_results = <<"r1">>
    /\ Len(calls) = 2
    /\ calls[1]["f"] = "ping" /\ calls[1]["e"] = "E0"
    /\ calls[2]["f"] = "flex_rdata_glob" /\ calls[2]["e"] = "E0"

\* C25: without a forced exception the k-th search call, whichever of the
\* twelve operations it is, returns the k-th seeded result, or raises it if
\* it is an exception instance, and takes exactly that element away; ping
\* and rate_limit take nothing.
C25_SeededInOrder ==
    (mockState = "ready" /\ exception = "None") =>
        LET n == Cardinality(SearchCalls(Len(calls)))
            used == IF n <= Len(seeded) THEN n ELSE Len(seeded)
        IN /\ search_results = SubSeq(seeded, used + 1, Len(seeded))
           /\ \A i \in SearchCalls(Len(calls)) :
                LET k == Cardinality(SearchCalls(i)) IN
                k <= Len(seeded) =>
                    /\ results[i].val = seeded[k]
                    /\ (results[i].kind = "raise") = (seeded[k] = "x1")
           /\ \A i \in (1..Len(calls)) \ SearchCalls(Len(calls)) :
                results[i].kind = "return"

\* Seeded with r2, r1: ping returned, then lookup_rdata_raw returned r2 and
\* r1 is left.
C25_Witness ==
    /\ exception = "None"
    /\ seeded = <<"r2", "r1">>
    /\ Len(calls) = 2
    /\ calls[1]["f"] = "ping" /\ calls[1]["res"] = "pong"
    /\ calls[2]["f"] = "lookup_rdata_raw" /\ calls[2]["res"] = "r2"
    /\ search_results = <<"r1">>

\* ------------------------------------------------------------------------
\* Properties of the decoder: lines that end, continue or are skipped

IsCondLine(l, c) == l.kind = "object" /\ l.cond = c

\* C26: a line with cond succeeded ends the sequence successfully at once:
\* it is the last line read and parsed, the generator is done with
\* StopIteration and the response closed once, and nothing that line carries
\* is yielded.
C26_SucceededEndsAtOnce ==
    \A i \in 1..Len(lines) :
        IsCondLine(lines[i], COND_SUCCEEDED) =>
            /\ i = Len(lines)
            /\ parsed = Cardinality({j \in 1..i : lines[j] # Blank})
            /\ gen = "done"
            /\ outcome = Success
            /\ closed = 1
            /\ \A k \in 1..Len(yieldedAt) : yieldedAt[k] # i

\* A payload line was yielded, then a succeeded line that carries an obj
\* ended the sequence; the obj of the succeeded line was not yielded.
C26_Witness ==
    /\ lines = <<ObjLine(COND_ONGOING, O2, None), ObjLine(COND_SUCCEEDED, O1, None)>>
    /\ yielded = <<O2>>
    /\ gen = "done"
    /\ last = "stop"

\* C27: reading a begin line, wherever it stands and whatever it carries,
\* yields nothing, does not end the sequence and leaves the decoder at the
\* top of the loop; no begin line is ever the source of a yielded object.
C27_BeginContinues ==
    /\ [](\A k \in 1..Len(yieldedAt) : ~IsCondLine(lines[yieldedAt[k]], COND_BEGIN))
    /\ [][(Len(lines') = Len(lines) + 1 /\ IsCondLine(lines'[Len(lines')], COND_BEGIN)) =>
            /\ gen' = "running"
            /\ gen = "running"
            /\ UNCHANGED <<yielded, yieldedAt, outcome, closed, last, eof>>]_vars

\* Three begin lines, the first, third and fourth of the stream, two of them
\* with an obj; only the payload line between them was yielded and the
\* decoder still runs.
C27_Witness ==
    /\ lines = <<ObjLine(COND_BEGIN, None, None), ObjLine(COND_ONGOING, O2, None),
                 ObjLine(COND_BEGIN, O1, None), ObjLine(COND_BEGIN, O1, None)>>
    /\ yielded = <<O2>>
    /\ gen = "running"

\* The lines of s that are not empty, in order.
RECURSIVE NonBlank(_)
NonBlank(s) ==
    IF s = <<>> THEN <<>>
    ELSE IF Head(s) = Blank THEN NonBlank(Tail(s))
    ELSE <<Head(s)>> \o NonBlank(Tail(s))

\* The loop of handle_saf run over the whole of s: the objects yielded (ys
\* so far) and the way it ended, NoExc when s ran out before it ended.
RECURSIVE DecodeAll(_, _, _)
DecodeAll(s, il, ys) ==
    IF s = <<>> THEN [yielded |-> ys, exc |-> NoExc]
    ELSE LET r == HandleLine(Head(s), il) IN
         IF r.act = "continue" THEN DecodeAll(Tail(s), il, ys)
         ELSE IF r.act = "yield"
         THEN LET a == AfterYield(Head(s), il) IN
              IF a.act = "continue" THEN DecodeAll(Tail(s), il, Append(ys, r.obj))
              ELSE [yielded |-> Append(ys, r.obj), exc |-> a.exc]
         ELSE [yielded |-> ys, exc |-> r.exc]

\* C28: whenever the decoder is between lines or has ended by itself, the
\* objects it has yielded and the way it ended are those of the lines read
\* so far with the empty ones removed, for either value of ignore_limited.
C28_BlankLinesIgnored ==
    (gen \in {"running", "done"} /\ ~Abandoned) =>
        LET d == DecodeAll(NonBlank(lines), ignore_limited, <<>>) IN
        /\ yielded = d.yielded
        /\ gen = "running" => d.exc = NoExc
        /\ gen = "done" =>
             outcome.kind = IF eof THEN "QueryTruncated" ELSE d.exc.kind
        /\ eof => d.exc = NoExc

\* Empty lines before, between and after the lines that matter: the payload
\* was yielded and the limited line raised QueryLimited.
C28_Witness ==
    /\ lines = <<Blank, ObjLine(None, O1, None), Blank, ObjLine(COND_LIMITED, None, M1)>>
    /\ ~ignore_limited
    /\ yielded = <<O1>>
    /\ outcome.kind = "QueryLimited"

\* C29: a step taken once the generator has ended reports StopIteration and
\* changes nothing else: no line read or parsed, nothing yielded, the
\* outcome kept and not raised again, the response not closed again.
C29_SinglePass ==
    [][gen = "done" =>
         /\ last' = "stop"
         /\ UNCHANGED <<gen, lines, parsed, eof, yielded, yieldedAt, outcome, closed>>]_vars

\* The sequence ended with QueryFailed after one yield, and the next() after
\* that reported StopIteration.
C29_Witness ==
    /\ gen = "done"
    /\ outcome.kind = "QueryFailed"
    /\ yielded = <<O1>>
    /\ closed = 1
    /\ last = "stop"

FramingErrorKinds == {"QueryLimited", "QueryFailed", "QueryTruncated", "ProtocolError"}

\* C30: for a streaming query the call raises a status error, and then no
\* sequence exists and nothing was read, or it returns the sequence; a 4xx
\* or 5xx response is always raised by the call; a framing error is never
\* the call's result and arises only in a step of the running decoder.
C30_TwoPhases ==
    /\ [](op = "saf" =>
            /\ callResult.kind \in StatusErrorKinds \cup {"returned"}
            /\ callResult.kind \in StatusErrorKinds =>
                 /\ gen = "none"
                 /\ lines = <<>> /\ yielded = <<>>
                 /\ outcome = NoExc
                 /\ last = "none"
            /\ (res.err = "none" /\ res.status >= 400) =>
                 callResult.kind \in StatusErrorKinds
            /\ outcome.kind \in FramingErrorKinds =>
                 callResult = Returned /\ gen = "done")
    /\ [][(outcome' # outcome /\ outcome'.kind \in FramingErrorKinds) =>
            /\ op = "saf"
            /\ callResult = Returned
            /\ gen \in {"running", "suspended"}
            /\ last' = "raise"]_vars

\* A 200 response whose call returned the sequence; the second next()
\* raised QueryTruncated.
C30_Witness ==
    /\ op = "saf"
    /\ res.status = 200
    /\ callResult = Returned
    /\ yielded = <<O1>>
    /\ outcome.kind = "QueryTruncated"
    /\ last = "raise"

\* A 403 response: the call raised AccessDenied and returned no sequence.
C30_WitnessStatus ==
    /\ op = "saf"
    /\ res.status = FORBIDDEN
    /\ callResult.kind = "AccessDenied"
    /\ gen = "none"

\* ------------------------------------------------------------------------
\* Properties of the decoder: what is yielded and how it ends

\* C31: every line read whose cond is neither begin nor succeeded and that
\* carries an obj has had that obj yielded, whatever the obj is, the empty
\* JSON object included.
C31_PresentObjYielded ==
    \A i \in 1..Len(lines) :
        (lines[i].kind = "object"
           /\ lines[i].cond \notin {COND_BEGIN, COND_SUCCEEDED}
           /\ lines[i].obj # None) =>
            \E k \in 1..Len(yielded) : yieldedAt[k] = i /\ yielded[k] = lines[i].obj

\* C32: an error raised while the sequence is iterated is QueryLimited,
\* QueryFailed, QueryTruncated or ProtocolError, and a line that is JSON but
\* not a JSON object raises ProtocolError.
C32_OnlyTaxonomyErrors ==
    (gen = "done" /\ ~Abandoned /\ outcome # Success) =>
        /\ outcome.kind \in FramingErrorKinds
        /\ (Len(lines) > 0 /\ LastLine.kind = "nonobject") =>
             outcome.kind = "ProtocolError"

\* ------------------------------------------------------------------------
\* Properties of the paths: segments

\* The number of segments the operation's path has by its shape.
ShapeSegs ==
    IF IsFlex THEN 3 + (IF HasRrtype THEN 1 ELSE 0)
    ELSE IF IsRdataIp THEN 4
    ELSE IF IsRrset THEN 4 + (IF HasRrtype \/ HasBailiwick THEN 1 ELSE 0)
                           + (IF HasBailiwick THEN 1 ELSE 0)
    ELSE 4 + (IF HasRrtype THEN 1 ELSE 0)

\* C33: every caller-supplied field is exactly one segment of the path: the
\* number of segments follows from the operation and from which optional
\* fields are non-empty, and outside the '/' between the segments the path
\* has only unreserved characters and percent-escapes (and the ',' that
\* rdata-ip puts for '/').
C33_OneSegmentPerField ==
    HasPath =>
        /\ Len(Segs) = ShapeSegs
        /\ Range(path) \subseteq
             Unreserved \cup {37, 47} \cup (IF IsRdataIp THEN {44} ELSE {})

\* ------------------------------------------------------------------------
\* Properties of the decoder: order, endings, ignore_limited, abandonment

\* C34: the yielded objects are, in order, the objs of distinct lines read
\* so far, one line after the other, and a step only ever adds one object
\* at the end of what was yielded: nothing is invented, repeated, reordered
\* or taken back, also when an error follows.
C34_YieldedIsSubsequence ==
    /\ [](/\ Len(yieldedAt) = Len(yielded)
          /\ \A k \in 1..Len(yielded) :
               /\ yieldedAt[k] \in 1..Len(lines)
               /\ lines[yieldedAt[k]].kind = "object"
               /\ yielded[k] = lines[yieldedAt[k]].obj
               /\ k > 1 => yieldedAt[k - 1] < yieldedAt[k])
    /\ [][/\ Len(yielded') \in {Len(yielded), Len(yielded) + 1}
          /\ SubSeq(yielded', 1, Len(yielded)) = yielded
          /\ Len(lines') >= Len(lines)
          /\ SubSeq(lines', 1, Len(lines)) = lines]_vars

\* Two payloads with an empty line between them, then a failed line: both
\* objects stay yielded after QueryFailed was raised.
C34_Witness ==
    /\ lines = <<ObjLine(COND_ONGOING, O2, None), Blank, ObjLine(COND_ONGOING, O1, None),
                 ObjLine(COND_FAILED, None, M1)>>
    /\ yielded = <<O2, O1>>
    /\ yieldedAt = <<1, 3>>
    /\ outcome.kind = "QueryFailed"

\* C35: a sequence that was consumed ends successfully only at a succeeded
\* line, or at a limited line while ignore_limited is true: never at the
\* end of the input, at a failed line or at a malformed line, whatever
\* ignore_limited is.
C35_SuccessOnlyAtTerminalLine ==
    (gen = "done" /\ outcome = Success) =>
        /\ ~eof
        /\ Len(lines) > 0
        /\ LastLine.kind = "object"
        /\ \/ LastLine.cond = COND_SUCCEEDED
           \/ LastLine.cond = COND_LIMITED /\ ignore_limited

\* With ignore_limited true a failed line raised QueryFailed all the same.
C35_WitnessFailed ==
    /\ ignore_limited
    /\ lines = <<ObjLine(COND_ONGOING, O1, None), ObjLine(COND_FAILED, O1, M1)>>
    /\ yielded = <<O1, O1>>
    /\ gen = "done"
    /\ outcome.kind = "QueryFailed"

\* With ignore_limited true a limited line ended the sequence successfully.
C35_Witness ==
    /\ ignore_limited
    /\ lines = <<ObjLine(COND_LIMITED, O1, M1)>>
    /\ gen = "done"
    /\ outcome = Success

\* The number of lines of s the loop of handle_saf takes before it ends, all
\* of them when it does not end.
RECURSIVE ReadCount(_, _)
ReadCount(s, il) ==
    IF s = <<>> THEN 0
    ELSE LET r == HandleLine(Head(s), il)
             ends == \/ r.act \in {"return", "raise"}
                     \/ r.act = "yield" /\ AfterYield(Head(s), il).act # "continue"
         IN IF ends THEN 1 ELSE 1 + ReadCount(Tail(s), il)

IsLimitedLine(l) == IsCondLine(l, COND_LIMITED)

\* C36: whenever the decoder is between lines or has ended by itself, the
\* same lines decoded with the other value of ignore_limited give the same
\* yielded objects and take the same number of lines, and end the same way
\* unless a limited line was reached.
C36_IgnoreLimitedOnlyAtLimited ==
    []((gen \in {"running", "done"} /\ ~Abandoned) =>
         LET d == DecodeAll(lines, ~ignore_limited, <<>>) IN
         /\ yielded = d.yielded
         /\ ReadCount(lines, ~ignore_limited) = Len(lines)
         /\ gen = "running" => d.exc = NoExc
         /\ (\A i \in 1..Len(lines) : ~IsLimitedLine(lines[i])) =>
              (gen = "done" =>
                 outcome = IF eof THEN Truncated.exc ELSE d.exc))

\* ignore_limited is true and the stream ends at a limited line after one
\* payload: success here, and the same two objects and two lines without it.
C36_Witness ==
    /\ ignore_limited
    /\ lines = <<ObjLine(COND_ONGOING, O2, None), ObjLine(COND_LIMITED, O1, M1)>>
    /\ yielded = <<O2, O1>>
    /\ outcome = Success
    /\ DecodeAll(lines, FALSE, <<>>).exc.kind = "QueryLimited"

\* C37: a sequence that is abandoned before any element was requested has
\* had its response closed exactly once, and no line was read.
C37_NeverStartedClosed ==
    outcome.kind = "NeverStarted" =>
        /\ closed = 1
        /\ lines = <<>>

\* C38: a response that _saf_query got from the transport is closed when the
\* call has raised a status error, and closed when the decoder has ended.
C38_EveryResponseClosed ==
    (op = "saf" /\ res.err = "none") =>
        /\ callResult.kind \in StatusErrorKinds => closed = 1
        /\ gen = "done" => closed = 1

====
